---- MODULE Spec2Model ----
(***************************************************************************)
(* A model of the evidence self-training core of OpenQA (src/main.py) and  *)
(* of the round scripts that launch it (src/scripts/*.py).                 *)
(*                                                                         *)
(*   Spec     the round script launching main.py processes: epochs of      *)
(*            train / pretrain_reader / pretrain_selector, validation,     *)
(*            update_evidence (accumulate, promote) and the pickle files.  *)
(*   SpecHA   has_answer as a pure function on bounded inputs.             *)
(*   SpecAgg  the vote aggregation of validate_unofficial_with_doc for     *)
(*            one question.                                                *)
(*   SpecLoaded  one process started on an evidence file written over a    *)
(*            larger document pool.                                        *)
(*   SpecSteps  one --mode all process over train splits of any size, so   *)
(*            that a pass has more batches than update_step has values.    *)
(*                                                                         *)
(* Floats (scores, probabilities, votes) are modelled by small integers:   *)
(* the code only compares, adds and multiplies them.                       *)
(***************************************************************************)
EXTENDS Integers, Sequences, FiniteSets, TLC

VARIABLES
    \* ---- the round script (src/scripts/quasar_selftraining.py) ----
    round,            \* number of rounds launched so far (loop variable i + 1)
    load_evidence_file, \* the script's load_evidence_file: "none" or a round name
    files,            \* evidence files on disk: <<dir, name>> -> pickled blob
    \* ---- the arguments every round is launched with ----
    mode,             \* args.mode
    Top_k,            \* args.top_k
    num_epochs,       \* args.num_epochs
    \* ---- one main.py process ----
    pc,               \* position of the process (or the error that ended it)
    epoch,            \* loop variable of main's epoch loop
    idx,              \* loop variable of the running pass over the train loader
    best_valid,       \* stats['best_valid']
    modelFile,        \* args.model_file: "absent" or "saved"
    HasAnswer_Map,    \* global HasAnswer_Map: idx -> grid
    Evidence_Label,   \* global Evidence_Label: idx -> list of labels
    Probability,      \* update_evidence's Probability, in insertion order
    Attention_Weight, \* update_evidence's Attention_Weight, in insertion order
    update_step,      \* update_step of the running pass
    idx_random,       \* the document order of the last step
    Evidence_list_sample, \* the translated labels of the last train step
    \* ---- history variables (observers of the process, not program state) ----
    matcherCalls,     \* <<idx, idx_doc, i>> -> has_answer calls made to fill the cache
    mapWrites,        \* idx -> number of assignments HasAnswer_Map[idx] = ...
    keyAttempts,      \* key -> number of accumulator writes attempted this pass
    preLabel,         \* Evidence_Label as it was when the promotion phase began
    fileReads,        \* evidence files read by the running process
    fileWrites,       \* evidence files written by the running process
    roundStart,       \* round index -> label store the round started with
    roundSaved,       \* round index -> label store the round pickled at its end
    metrics,          \* result[args.valid_metric] of every epoch validated so far
    savedEpoch,       \* the epoch whose model.save wrote args.model_file, -1 if none
    \* ---- has_answer on its own (SpecHA) ----
    haAnswer, haDoc, haResult, haDone,
    \* ---- the aggregation loop on its own (SpecAgg) ----
    aggSel, aggDoc, aggK, aggScores, aggPrediction, aggDone,
    aggHistory,       \* history: the <<key, vote>> of every candidate that was added
    aggSpan,          \* history: <<pred_s[i][k], pred_e[i][k]>> of the last candidate
    \* ---- the train split and the calls of a pass ----
    num_examples,     \* len(train_exs_with_doc), the examples the train loader serves
    handed            \* history: the update_step of every update_with_doc call of the pass

scriptVars == <<round, load_evidence_file, files>>
argVars == <<mode, Top_k, num_epochs>>
procVars == <<pc, epoch, idx, best_valid, modelFile, HasAnswer_Map, Evidence_Label,
              Probability, Attention_Weight, update_step, idx_random,
              Evidence_list_sample>>
histVars == <<matcherCalls, mapWrites, keyAttempts, preLabel, fileReads, fileWrites,
              roundStart, roundSaved>>
epochVars == <<metrics, savedEpoch>>
mainVars == <<scriptVars, argVars, procVars, histVars, epochVars>>
haVars == <<haAnswer, haDoc, haResult, haDone>>
aggVars == <<aggSel, aggDoc, aggK, aggScores, aggPrediction, aggDone, aggHistory,
             aggSpan>>
stepVars == <<num_examples, handed>>
vars == <<mainVars, haVars, aggVars, stepVars>>

(***************************************************************************)
(* Bounds of the model.                                                    *)
(***************************************************************************)
NumDocs == 2        \* vector.num_docs, the size D of the document pool
NumExamples == 3    \* examples in the train split of the rounds (Spec, SpecLoaded)
BatchSize == 2      \* args.batch_size
MaxK == 2           \* top_k ranges over 0..MaxK
MaxEpochs == 2      \* num_epochs ranges over 0..MaxEpochs
MaxRounds == 2      \* recurrent_times of the round script
MaxScore == 2       \* attention scores range over 1..MaxScore
MaxMetric == 1      \* validation metrics range over 0..MaxMetric
MaxAnswers == 2     \* accepted answers per question (SpecHA)
MaxAnsLen == 2      \* tokens per accepted answer (SpecHA)
MaxDocLen == 3      \* tokens per document (SpecHA)
TopN == 2           \* candidates per document in the aggregation loop (10 in the code)
MaxPos == 2         \* predicted token positions range over 0..MaxPos
MaxBatches == 6     \* len(data_loader) ranges over 0..MaxBatches (SpecSteps)

Min(a, b) == IF a <= b THEN a ELSE b
Max(a, b) == IF a >= b THEN a ELSE b

\* Every sequence over S of length at most n.
SeqsUpTo(S, n) == UNION {[1..k -> S] : k \in 0..n}

(***************************************************************************)
(* Text: tokens, lower-casing, and the data set.                           *)
(***************************************************************************)
\* str.lower() on one token.
Lower(tok) ==
    CASE tok = "A" -> "a"
      [] tok = "B" -> "b"
      [] tok = "Cat" -> "cat"
      [] tok = "The" -> "the"
      [] tok = "Paris" -> "paris"
      [] OTHER -> tok

\* text = [t[i].lower() for i in range(len(t))]
LowerAll(t) == [k \in 1..Len(t) |-> Lower(t[k])]

\* " ".join(a).lower(), normalize, tokenize, words(uncased=True): on tokens
\* that hold no white space or punctuation the tokenizer returns the tokens
\* it was given, lower-cased.
NormalizeAnswer(a) == [k \in 1..Len(a) |-> Lower(a[k])]

(***************************************************************************)
(* has_answer (src/main.py 526-558), branch args.dataset # "CuratedTrec".  *)
(* Spans are pairs of 0-based token indices, as in the code.               *)
(***************************************************************************)
\* text[i : i + n] of Python, for 0 <= i and i + n <= len(text).
Slice(text, i, n) == [k \in 1..n |-> text[i + k]]

\* range(0, len(text) - len(single_answer) + 1) is empty when the bound is <= 0.
WindowStartsShort(text, single_answer) == Len(text) - Len(single_answer)
WindowStarts(text, single_answer) == Len(text) - Len(single_answer) + 1

\* The test of line 553 at window start i.
WindowMatches(single_answer, text, i) ==
    single_answer = Slice(text, i, Len(single_answer))

\* The inner loop (lines 552-554) from window start i on, appending to res_list.
RECURSIVE ScanWindows(_, _, _, _)
ScanWindows(single_answer, text, i, res_list) ==
    IF i >= WindowStarts(text, single_answer)
    THEN res_list
    ELSE ScanWindows(single_answer, text, i + 1,
             IF WindowMatches(single_answer, text, i)
             THEN Append(res_list, <<i, i + Len(single_answer) - 1>>)
             ELSE res_list)

\* The outer loop (lines 547-554) from the a-th accepted answer on.
RECURSIVE ScanAnswers(_, _, _, _)
ScanAnswers(answer, text, a, res_list) ==
    IF a > Len(answer)
    THEN res_list
    ELSE ScanAnswers(answer, text, a + 1,
             ScanWindows(NormalizeAnswer(answer[a]), text, 0, res_list))

\* has_answer(args, answer, t): the pair (bool, res_list).
has_answer(answer, t) ==
    LET res_list == ScanAnswers(answer, LowerAll(t), 1, <<>>)
    IN  <<Len(res_list) > 0, res_list>>

(***************************************************************************)
(* The data set: accepted answers and the document pool of every example.  *)
(* A pool may hold fewer than NumDocs documents; the code indexes it with  *)
(* idx_doc % len(pool).                                                    *)
(***************************************************************************)
\* exs_with_doc[e]['answer']
Answers(e) ==
    CASE e % 3 = 0 -> << <<"Paris">> >>
      [] e % 3 = 1 -> << <<"cat">>, <<"dog">> >>
      [] OTHER     -> << <<"the", "cat">> >>

\* docs_by_question[e], each entry's "document"
Docs(e) ==
    CASE e % 3 = 0 -> << <<"Paris", "lyon">>, <<"paris">> >>
      [] e % 3 = 1 -> << <<"the", "Cat", "sat">> >>
      [] OTHER     -> << <<"dog">>, <<"lyon", "The">> >>

\* docs_by_question[e][idx_doc % len(docs_by_question[e])]["document"]
DocText(e, idx_doc) == Docs(e)[(idx_doc % Len(Docs(e))) + 1]

(***************************************************************************)
(* The aggregation loop of validate_unofficial_with_doc (609-644) for one  *)
(* question.  scores[i] is a dict: a sequence of <<key, vote>> in          *)
(* insertion order.  A key is the lower-cased surface of the span, kept as *)
(* its token sequence ("" is the empty sequence).                          *)
(***************************************************************************)
\* doc_text[j] raises IndexError unless -len <= j < len.
IndexOk(doc_text, j) == -Len(doc_text) <= j /\ j < Len(doc_text)

\* doc_text[j] with Python's negative indices.
PyGet(doc_text, j) ==
    IF j >= 0 THEN doc_text[j + 1] ELSE doc_text[Len(doc_text) + j + 1]

\* Lines 618-620 raise iff some j of range(s, e + 1) is out of range.
SpanRaises(doc_text, s, e) == \E j \in s..e : ~IndexOk(doc_text, j)

\* Lines 618-621: " ".join(doc_text[s..e]).lower()
Surface(doc_text, s, e) == [k \in 1..(e - s + 1) |-> Lower(PyGet(doc_text, s + k - 1))]

\* key in scores[i]
HasKey(scores, key) == \E n \in 1..Len(scores) : scores[n][1] = key

\* scores[i][key] for a key that is present
VoteOf(scores, key) ==
    LET n == CHOOSE n \in 1..Len(scores) : scores[n][1] = key IN scores[n][2]

\* Lines 622-624: create the bucket with 0 if absent, then add the vote.
AddVote(scores, key, vote) ==
    IF HasKey(scores, key)
    THEN [n \in 1..Len(scores) |->
             IF scores[n][1] = key THEN <<key, scores[n][2] + vote>> ELSE scores[n]]
    ELSE Append(scores, <<key, 0 + vote>>)

\* Lines 617-626 for one candidate: the try block, and pass on any exception.
Aggregate(scores, doc_text, s, e, pred_score, sel_score) ==
    IF SpanRaises(doc_text, s, e)
    THEN scores
    ELSE AddVote(scores, Surface(doc_text, s, e), pred_score * sel_score)

\* best_score = 0 of line 639
InitialBestScore == 0

\* Lines 639-644: the loop over the keys in insertion order, from the n-th on.
RECURSIVE SelectFrom(_, _, _, _)
SelectFrom(scores, n, best_score, prediction) ==
    IF n > Len(scores)
    THEN prediction
    ELSE IF scores[n][2] > best_score
         THEN SelectFrom(scores, n + 1, scores[n][2], scores[n][1])
         ELSE SelectFrom(scores, n + 1, best_score, prediction)

\* The prediction of lines 639-644; "" when no key is chosen.
SelectAnswer(scores) == SelectFrom(scores, 1, InitialBestScore, <<>>)

(***************************************************************************)
(* The train loader: a sequential sampler over num_examples examples in    *)
(* batches of BatchSize; the last batch may be smaller.  Batch idx and the *)
(* in-batch index i are 0-based as in the code.                            *)
(***************************************************************************)
\* len(data_loader)
NumBatches == (num_examples + BatchSize - 1) \div BatchSize

\* ex[0].size(0) of batch idx
batch_size(b) == Min(BatchSize, num_examples - b * BatchSize)

\* ex_id[i] of batch idx
ex_id(b, i) == b * BatchSize + i

(***************************************************************************)
(* Dicts as functions: the empty dict, and d[k] = v.                       *)
(***************************************************************************)
EmptyDict == <<>>
Put(d, k, v) == (k :> v) @@ d

(***************************************************************************)
(* The HasAnswer_Map cache (train 226-235, update_evidence 327-336,        *)
(* pretrain_reader 493-502, pretrain_selector 436-447).  A cell is either  *)
(* the pair has_answer returned or, in pretrain_selector, its flag alone.  *)
(***************************************************************************)
PairCell(r) == [kind |-> "pair", flag |-> r[1], spans |-> r[2]]
FlagCell(r) == [kind |-> "bool", flag |-> r[1], spans |-> <<>>]

\* idx not in HasAnswer_Map
CacheMissAlways(b, map) == TRUE
CacheMiss(b, map) == b \notin DOMAIN map

\* The grid train, update_evidence and pretrain_reader compute on a miss.
PairGrid(b) ==
    [d \in 1..NumDocs |-> [i \in 1..batch_size(b) |->
        PairCell(has_answer(Answers(ex_id(b, i - 1)), DocText(ex_id(b, i - 1), d - 1)))]]

\* The grid pretrain_selector computes on a miss: has_a only.
FlagGrid(b) ==
    [d \in 1..NumDocs |-> [i \in 1..batch_size(b) |->
        FlagCell(has_answer(Answers(ex_id(b, i - 1)), DocText(ex_id(b, i - 1), d - 1)))]]

\* HasAnswer_Map after the cache block of a step on batch b.
CacheAfter(map, b, grid) == IF CacheMiss(b, map) THEN Put(map, b, grid) ELSE map

\* The has_answer calls of the cache block, counted per cell.
CallsAfter(calls, map, b) ==
    IF CacheMiss(b, map)
    THEN [calls EXCEPT ![b] = [d \in 1..NumDocs |-> [i \in 1..batch_size(b) |-> @[d][i] + 1]]]
    ELSE calls

\* The assignments HasAnswer_Map[idx] = ... of the cache block, counted.
WritesAfter(writes, map, b) ==
    IF CacheMiss(b, map) THEN [writes EXCEPT ![b] = @ + 1] ELSE writes

\* HasAnswer_list[idx_doc][i][0] raises TypeError on a cell that is a bare bool.
SubscriptRaises(grid) ==
    \E d \in DOMAIN grid : \E i \in DOMAIN grid[d] : grid[d][i].kind # "pair"

(***************************************************************************)
(* Evidence_Label (train 237-241, update_evidence 338-340).                *)
(***************************************************************************)
\* if idx not in Evidence_Label: Evidence_Label[idx] = [-1] * batch_size
EnsureLabels(labels, b) ==
    IF b \notin DOMAIN labels
    THEN Put(labels, b, [i \in 1..batch_size(b) |-> -1])
    ELSE labels

(***************************************************************************)
(* Document sampling in train and pretrain_selector (243-249, 453-457).    *)
(***************************************************************************)
\* torch.multinomial(weights, num_docs) without replacement over uniform
\* weights: any order of the documents 0..NumDocs-1.
DocOrders ==
    {p \in [1..NumDocs -> 0..(NumDocs - 1)] :
        \A a, b \in 1..NumDocs : p[a] = p[b] => a = b}

\* range(vector.num_docs) of update_evidence, line 343
ReversedOrder == [k \in 1..NumDocs |-> NumDocs - k]
IdentityOrder == [k \in 1..NumDocs |-> k - 1]

\* ex_with_doc: the batch's documents, by original index
PoolDocs == [d \in 1..NumDocs |-> d - 1]

\* ex_with_doc_sample of lines 253-256 (train) and 346-349 (update_evidence):
\* slot k holds ex_with_doc[idx_random[k]]
SampleDocs(order, ex_with_doc) == [k \in 1..Len(order) |-> ex_with_doc[order[k] + 1]]

\* idx_doc_map = {int(idx_doc): i for i, idx_doc in enumerate(idx_random)};
\* idx_doc_map[-1] = -1
idx_doc_map_from_one(order) ==
    [d \in {order[k] : k \in 1..Len(order)} \cup {-1} |->
        IF d = -1 THEN -1
        ELSE CHOOSE k \in 1..Len(order) :
                 order[k] = d /\ \A k2 \in (k + 1)..Len(order) : order[k2] # d]
idx_doc_map(order) ==
    [d \in {order[k] : k \in 1..Len(order)} \cup {-1} |->
        IF d = -1 THEN -1
        ELSE (CHOOSE k \in 1..Len(order) :
                 order[k] = d /\ \A k2 \in (k + 1)..Len(order) : order[k2] # d) - 1]

\* Line 258 raises KeyError for a label that is no key of idx_doc_map.
TranslateRaises(order, Evidence_list) ==
    \E i \in DOMAIN Evidence_list : Evidence_list[i] \notin DOMAIN idx_doc_map(order)

\* Evidence_list_sample of lines 257-258
Translate(order, Evidence_list) ==
    [i \in DOMAIN Evidence_list |-> idx_doc_map(order)[Evidence_list[i]]]

\* Evidence_list_sample when line 258 raises: emptied at 252, it holds the
\* translations appended before the first label that is no key.
TranslatedBeforeRaise(order, Evidence_list) ==
    LET first == CHOOSE i \in DOMAIN Evidence_list :
                     /\ Evidence_list[i] \notin DOMAIN idx_doc_map(order)
                     /\ \A j \in 1..(i - 1) : Evidence_list[j] \in DOMAIN idx_doc_map(order)
    IN  [i \in 1..(first - 1) |-> idx_doc_map(order)[Evidence_list[i]]]

\* if (idx%200==199): train validates on the train loader inside its loop
\* (298-299), after the update of 286 and the advance of 291.
ValidateEvery == 200
ValidatesInside(b) == b % ValidateEvery = ValidateEvery - 1

\* update_step = (update_step + 1) % 4
NextUpdateStepNoWrap(u) == u + 1
NextUpdateStep(u) == (u + 1) % 4

(***************************************************************************)
(* Accumulator keys: "%d|%d" % (idx, i) and key.split('|') with int().     *)
(* A key is the sequence of its characters.                                *)
(***************************************************************************)
DigitChars == <<"0", "1", "2", "3", "4", "5", "6", "7", "8", "9">>

\* "%d" % n for n >= 0
RECURSIVE FormatInt(_)
FormatInt(n) ==
    IF n < 10 THEN <<DigitChars[n + 1]>>
    ELSE FormatInt(n \div 10) \o <<DigitChars[(n % 10) + 1]>>

\* int(s) for a string of digits
RECURSIVE ParseInt(_)
ParseInt(str) ==
    IF Len(str) = 0 THEN 0
    ELSE 10 * ParseInt(SubSeq(str, 1, Len(str) - 1))
         + ((CHOOSE d \in 1..10 : DigitChars[d] = str[Len(str)]) - 1)

\* key = "%d|%d" % (idx, i)
FormatKeyNoIndex(b, i) == FormatInt(b) \o <<"|">>
FormatKey(b, i) == FormatInt(b) \o <<"|">> \o FormatInt(i)

\* idx, i = key.split('|'); idx = int(idx); i = int(i)
ParseKey(key) ==
    LET bar == CHOOSE n \in 1..Len(key) : key[n] = "|"
    IN  <<ParseInt(SubSeq(key, 1, bar - 1)), ParseInt(SubSeq(key, bar + 1, Len(key)))>>

(***************************************************************************)
(* Phase 1 of update_evidence: the writes of lines 391-397.  Probability   *)
(* is a sequence of <<key, prob>>, Attention_Weight a sequence of          *)
(* <<key, max_value, max_index>>, both in insertion order.                 *)
(***************************************************************************)
KeysOf(dict) == {dict[n][1] : n \in 1..Len(dict)}

\* key in Probability or key in Attention_Weight
KeyExists(key, P, A) == key \in KeysOf(P) \/ key \in KeysOf(A)

\* keyAttempts with one more attempt on key
Attempted(attempts, key) ==
    IF key \in DOMAIN attempts
    THEN [attempts EXCEPT ![key] = @ + 1]
    ELSE Put(attempts, key, 1)

\* The loop of lines 391-397 from in-batch index i on.  acc holds the two
\* dicts, the attempts seen and whether line 394 raised.
RECURSIVE WriteRecords(_, _, _, _, _)
WriteRecords(acc, b, i, probs, attentions) ==
    IF i >= batch_size(b) \/ acc.raised
    THEN acc
    ELSE LET key == FormatKey(b, i)
         IN  IF KeyExists(key, acc.P, acc.A)
             THEN [acc EXCEPT !.raised = TRUE, !.attempts = Attempted(@, key)]
             ELSE WriteRecords(
                      [P |-> Append(acc.P, <<key, probs[i + 1]>>),
                       A |-> Append(acc.A, <<key, attentions[i + 1][1], attentions[i + 1][2]>>),
                       attempts |-> Attempted(acc.attempts, key),
                       raised |-> FALSE],
                      b, i + 1, probs, attentions)

(***************************************************************************)
(* Phase 2 of update_evidence: lines 399-415.                              *)
(***************************************************************************)
\* Line 399: keep the records with max_index != -1, in insertion order.
ConfidentAlways(rec) == TRUE
Confident(rec) == rec[3] # -1
FilterScores(A) == SelectSeq(A, Confident)

\* Where sorted(..., reverse=True) puts x in an already sorted list: after
\* every element whose score is >= x's (the sort is stable).
InsertBeforeEquals(sorted, x) ==
    LET p == Cardinality({n \in 1..Len(sorted) : sorted[n][2] > x[2]})
    IN  SubSeq(sorted, 1, p) \o <<x>> \o SubSeq(sorted, p + 1, Len(sorted))
InsertAscending(sorted, x) ==
    LET p == Cardinality({n \in 1..Len(sorted) : sorted[n][2] <= x[2]})
    IN  SubSeq(sorted, 1, p) \o <<x>> \o SubSeq(sorted, p + 1, Len(sorted))
InsertDescending(sorted, x) ==
    LET p == Cardinality({n \in 1..Len(sorted) : sorted[n][2] >= x[2]})
    IN  SubSeq(sorted, 1, p) \o <<x>> \o SubSeq(sorted, p + 1, Len(sorted))

\* Line 400: sorted(evidence_scores.items(), key=score, reverse=True)
RECURSIVE SortFrom(_, _, _)
SortFrom(items, n, sorted) ==
    IF n > Len(items) THEN sorted
    ELSE SortFrom(items, n + 1, InsertDescending(sorted, items[n]))

SortByScore(items) == SortFrom(items, 1, <<>>)

\* Line 408: the test that skips a record
AlreadyLabeledNever(labels, b, i) == FALSE
AlreadyLabeled(labels, b, i) == labels[b][i + 1] # -1

\* Line 414: the test that ends the walk, made after a promotion
BudgetSpent(count, k) == count >= k

\* Lines 404-415: the walk over the sorted records from the n-th on.
\* Returns the labels, the count, and how many records line 409 skipped.
RECURSIVE WalkFrom(_, _, _, _, _, _)
WalkFrom(sorted, n, labels, count, k, skipped) ==
    IF n > Len(sorted)
    THEN [labels |-> labels, count |-> count, skipped |-> skipped]
    ELSE LET b == ParseKey(sorted[n][1])[1]
             i == ParseKey(sorted[n][1])[2]
         IN  IF AlreadyLabeled(labels, b, i)
             THEN WalkFrom(sorted, n + 1, labels, count, k, skipped + 1)
             ELSE LET promoted == [labels EXCEPT ![b][i + 1] = sorted[n][3]]
                  IN  IF BudgetSpent(count + 1, k)
                      THEN [labels |-> promoted, count |-> count + 1, skipped |-> skipped]
                      ELSE WalkFrom(sorted, n + 1, promoted, count + 1, k, skipped)

\* The walk that ends at the first record of an already labeled example.
RECURSIVE WalkEndsAtLabeled(_, _, _, _, _)
WalkEndsAtLabeled(sorted, n, labels, count, k) ==
    IF n > Len(sorted)
    THEN [labels |-> labels, count |-> count, skipped |-> 0]
    ELSE LET b == ParseKey(sorted[n][1])[1]
             i == ParseKey(sorted[n][1])[2]
         IN  IF AlreadyLabeled(labels, b, i)
             THEN [labels |-> labels, count |-> count, skipped |-> 1]
             ELSE LET promoted == [labels EXCEPT ![b][i + 1] = sorted[n][3]]
                  IN  IF BudgetSpent(count + 1, k)
                      THEN [labels |-> promoted, count |-> count + 1, skipped |-> 0]
                      ELSE WalkEndsAtLabeled(sorted, n + 1, promoted, count + 1, k)
Walk(sorted, n, labels, count, k) == WalkFrom(sorted, n, labels, count, k, 0)

\* Lines 399-415 as a whole.
PromoteLabels(labels, A, k) == Walk(SortByScore(FilterScores(A)), 1, labels, 0, k)

(***************************************************************************)
(* pickle.dump / pickle.load of Evidence_Label (901, 936): the blob lists  *)
(* the dict's items in key order; loading rebuilds the dict from them.     *)
(***************************************************************************)
PickleDump(labels) ==
    LET keys == DOMAIN labels
        nth(k) == CHOOSE x \in keys : Cardinality({y \in keys : y < x}) = k - 1
    IN  [k \in 1..Cardinality(keys) |-> <<nth(k), labels[nth(k)]>>]

PickleLoad(blob) ==
    [x \in {blob[k][1] : k \in 1..Len(blob)} |->
        blob[CHOOSE k \in 1..Len(blob) : blob[k][1] = x][2]]

(***************************************************************************)
(* File names of the round script and of main.                             *)
(***************************************************************************)
NoFile == <<"none">>
\* "recurrent%d" % i
RoundName(i) == <<"recurrent", i>>
\* os.path.join(model_dir, model_name + '.%s.pkl' % name), model_dir being
\* the output_dir of round i
EvidencePath(i, name) == <<i, name>>

(***************************************************************************)
(* Values the external collaborators may return.                           *)
(***************************************************************************)
Modes == {"all", "reader", "selector"}
\* probs[i] of model.update_with_doc(..., return_prob=True)
ProbValues == {1}
\* (attentions[0][i], attentions[1][i]): the best score and its document, or -1
AttentionValues == (1..MaxScore) \X (-1..(NumDocs - 1))
\* result[args.valid_metric]
MetricValues == 0..MaxMetric

\* The ways a process ends with an exception.
ErrorPcs == {"EvidenceFileMissing", "ModelFileMissing", "ModelError",
             "KeyError", "TypeError", "ValueError"}
Crashed == pc \in ErrorPcs

ZeroCalls ==
    [b \in 0..(NumBatches - 1) |-> [d \in 1..NumDocs |-> [i \in 1..batch_size(b) |-> 0]]]
ZeroWrites == [b \in 0..(NumBatches - 1) |-> 0]

(***************************************************************************)
(* Initial states.                                                         *)
(***************************************************************************)
ProcInit ==
    /\ pc = "idle"
    /\ epoch = 0
    /\ idx = 0
    /\ best_valid = 0
    /\ modelFile = "absent"
    /\ HasAnswer_Map = EmptyDict
    /\ Evidence_Label = EmptyDict
    /\ Probability = <<>>
    /\ Attention_Weight = <<>>
    /\ update_step = 0
    /\ idx_random = <<>>
    /\ Evidence_list_sample = <<>>
    /\ matcherCalls = ZeroCalls
    /\ mapWrites = ZeroWrites
    /\ keyAttempts = EmptyDict
    /\ preLabel = EmptyDict
    /\ fileReads = 0
    /\ fileWrites = 0
    /\ roundStart = EmptyDict
    /\ roundSaved = EmptyDict
    /\ metrics = <<>>
    /\ savedEpoch = -1

ScriptInit ==
    /\ round = 0
    /\ load_evidence_file = NoFile
    /\ files = EmptyDict

HAIdle == haAnswer = <<>> /\ haDoc = <<>> /\ haResult = <<FALSE, <<>>>> /\ haDone = FALSE

AggIdle ==
    /\ aggSel = <<>>
    /\ aggDoc = 0
    /\ aggK = 0
    /\ aggScores = <<>>
    /\ aggPrediction = <<>>
    /\ aggDone = FALSE
    /\ aggHistory = <<>>
    /\ aggSpan = <<>>

StepIdle == num_examples = 0 /\ handed = <<>>

MainIdle ==
    /\ ScriptInit
    /\ ProcInit
    /\ mode = "all"
    /\ Top_k = 0
    /\ num_epochs = 0

Init ==
    /\ num_examples = NumExamples
    /\ handed = <<>>
    /\ ScriptInit
    /\ ProcInit
    /\ mode \in Modes
    /\ Top_k \in 0..MaxK
    /\ num_epochs \in 0..MaxEpochs
    /\ HAIdle
    /\ AggIdle

(***************************************************************************)
(* The round script: one iteration of its loop is StartRound, the process  *)
(* it waits for, and EndRound.                                             *)
(***************************************************************************)
\* Where the process stands after __main__ 935-936: open() raises when the
\* file is wanted and absent; otherwise main runs up to its epoch loop.
EntryIgnoresMissing(wanted, found) == IF num_epochs > 0 THEN "pass" ELSE "trained"
Entry(wanted, found) ==
    IF wanted /\ ~found THEN "EvidenceFileMissing"
    ELSE IF num_epochs > 0 THEN "pass" ELSE "trained"

\* Script lines 23-47 up to the launch, then __main__ 935-936 and the entry
\* of main's epoch loop (869-872).
StartRound ==
    /\ pc = "idle"
    /\ round < MaxRounds
    /\ LET from == EvidencePath(round - 1, load_evidence_file)
           to == EvidencePath(round, load_evidence_file)
           copied == IF round > 0 /\ from \in DOMAIN files
                     THEN Put(files, to, files[from])
                     ELSE files
           wanted == load_evidence_file # NoFile
           found == to \in DOMAIN copied
           loaded == IF wanted /\ found THEN PickleLoad(copied[to]) ELSE EmptyDict
       IN  /\ files' = copied
           /\ Evidence_Label' = loaded
           /\ fileReads' = IF wanted /\ found THEN 1 ELSE 0
           /\ pc' = Entry(wanted, found)
           /\ roundStart' = IF wanted /\ ~found THEN roundStart
                            ELSE Put(roundStart, round, loaded)
    /\ epoch' = 0
    /\ idx' = 0
    /\ best_valid' = 0
    /\ modelFile' = "absent"
    /\ HasAnswer_Map' = EmptyDict
    /\ Probability' = <<>>
    /\ Attention_Weight' = <<>>
    /\ update_step' = 0
    /\ idx_random' = <<>>
    /\ Evidence_list_sample' = <<>>
    /\ matcherCalls' = ZeroCalls
    /\ mapWrites' = ZeroWrites
    /\ keyAttempts' = EmptyDict
    /\ preLabel' = EmptyDict
    /\ fileWrites' = 0
    /\ metrics' = <<>>
    /\ savedEpoch' = -1
    /\ handed' = <<>>
    /\ UNCHANGED <<round, load_evidence_file, argVars, roundSaved, haVars, aggVars,
                   num_examples>>

\* Script lines 47-49: os.system returns whatever the process did, and the
\* process's memory is gone; load_evidence_file = save_evidence_file.
EndRound ==
    /\ pc = "done" \/ Crashed
    /\ pc' = "idle"
    /\ load_evidence_file' = RoundName(round)
    /\ round' = round + 1
    /\ epoch' = 0
    /\ idx' = 0
    /\ best_valid' = 0
    /\ modelFile' = "absent"
    /\ HasAnswer_Map' = EmptyDict
    /\ Evidence_Label' = EmptyDict
    /\ Probability' = <<>>
    /\ Attention_Weight' = <<>>
    /\ update_step' = 0
    /\ idx_random' = <<>>
    /\ Evidence_list_sample' = <<>>
    /\ matcherCalls' = ZeroCalls
    /\ mapWrites' = ZeroWrites
    /\ keyAttempts' = EmptyDict
    /\ preLabel' = EmptyDict
    /\ fileReads' = 0
    /\ fileWrites' = 0
    /\ metrics' = <<>>
    /\ savedEpoch' = -1
    /\ handed' = <<>>
    /\ UNCHANGED <<files, argVars, roundStart, roundSaved, haVars, aggVars, num_examples>>

(***************************************************************************)
(* The epoch loop of main (872-895).                                       *)
(***************************************************************************)
\* One iteration of train's loop (223-299) on batch idx.  The validation
\* of 298-299 changes nothing the process keeps.
TrainStep ==
    /\ pc = "pass" /\ mode = "all" /\ idx < NumBatches
    /\ \E order \in DocOrders :
        LET map1 == CacheAfter(HasAnswer_Map, idx, PairGrid(idx))
            labels1 == EnsureLabels(Evidence_Label, idx)
            keyError == TranslateRaises(order, labels1[idx])
            typeError == SubscriptRaises(map1[idx])
            ok == ~keyError /\ ~typeError
        IN  /\ HasAnswer_Map' = map1
            /\ matcherCalls' = CallsAfter(matcherCalls, HasAnswer_Map, idx)
            /\ mapWrites' = WritesAfter(mapWrites, HasAnswer_Map, idx)
            /\ Evidence_Label' = labels1
            /\ idx_random' = order
            /\ Evidence_list_sample' = IF keyError
                                       THEN TranslatedBeforeRaise(order, labels1[idx])
                                       ELSE Translate(order, labels1[idx])
            /\ pc' = IF keyError THEN "KeyError" ELSE IF typeError THEN "TypeError" ELSE "pass"
            /\ handed' = IF ok THEN Append(handed, update_step) ELSE handed
            /\ update_step' = IF ok THEN NextUpdateStep(update_step) ELSE update_step
            /\ idx' = IF ok THEN idx + 1 ELSE idx
    /\ UNCHANGED <<scriptVars, argVars, epoch, best_valid, modelFile, Probability,
                   Attention_Weight, keyAttempts, preLabel, fileReads, fileWrites,
                   roundStart, roundSaved, haVars, aggVars, num_examples, epochVars>>

\* One iteration of pretrain_reader's loop (489-515) on batch idx.
PretrainReaderStep ==
    /\ pc = "pass" /\ mode = "reader" /\ idx < NumBatches
    /\ LET map1 == CacheAfter(HasAnswer_Map, idx, PairGrid(idx))
           typeError == SubscriptRaises(map1[idx])
       IN  /\ HasAnswer_Map' = map1
           /\ matcherCalls' = CallsAfter(matcherCalls, HasAnswer_Map, idx)
           /\ mapWrites' = WritesAfter(mapWrites, HasAnswer_Map, idx)
           /\ pc' = IF typeError THEN "TypeError" ELSE "pass"
           /\ idx' = IF typeError THEN idx ELSE idx + 1
    /\ UNCHANGED <<scriptVars, argVars, epoch, best_valid, modelFile, Evidence_Label,
                   Probability, Attention_Weight, update_step, idx_random,
                   Evidence_list_sample, keyAttempts, preLabel, fileReads, fileWrites,
                   roundStart, roundSaved, haVars, aggVars, stepVars, epochVars>>

\* One iteration of pretrain_selector's loop (433-474) on batch idx.
\* tot_ans += HasAnswer_list[idx_doc][i] raises TypeError on a pair.
PretrainSelectorStep ==
    /\ pc = "pass" /\ mode = "selector" /\ idx < NumBatches
    /\ \E order \in DocOrders :
        LET map1 == CacheAfter(HasAnswer_Map, idx, FlagGrid(idx))
            typeError == \E d \in 1..NumDocs : \E i \in 1..batch_size(idx) :
                             map1[idx][d][i].kind # "bool"
        IN  /\ HasAnswer_Map' = map1
            /\ matcherCalls' = CallsAfter(matcherCalls, HasAnswer_Map, idx)
            /\ mapWrites' = WritesAfter(mapWrites, HasAnswer_Map, idx)
            /\ idx_random' = IF typeError THEN idx_random ELSE order
            /\ pc' = IF typeError THEN "TypeError" ELSE "pass"
            /\ idx' = IF typeError THEN idx ELSE idx + 1
    /\ UNCHANGED <<scriptVars, argVars, epoch, best_valid, modelFile, Evidence_Label,
                   Probability, Attention_Weight, update_step, Evidence_list_sample,
                   keyAttempts, preLabel, fileReads, fileWrites, roundStart,
                   roundSaved, haVars, aggVars, stepVars, epochVars>>

\* result[args.valid_metric] > stats['best_valid'], line 889
ImprovesOrEquals(metric, best) == metric >= best
Improves(metric, best) == metric > best

\* The pass returns; main validates (883-895) and goes to the next epoch or
\* leaves the loop.  The next pass starts with update_step = 0 (222).
Validate ==
    /\ pc = "pass" /\ idx = NumBatches
    /\ \E metric \in MetricValues :
        /\ modelFile' = IF Improves(metric, best_valid) THEN "saved" ELSE modelFile
        /\ best_valid' = IF Improves(metric, best_valid) THEN metric ELSE best_valid
        /\ savedEpoch' = IF Improves(metric, best_valid) THEN epoch ELSE savedEpoch
        /\ metrics' = Append(metrics, metric)
    /\ epoch' = epoch + 1
    /\ pc' = IF epoch + 1 < num_epochs THEN "pass" ELSE "trained"
    /\ idx' = 0
    /\ update_step' = 0
    /\ idx_random' = <<>>
    /\ Evidence_list_sample' = <<>>
    /\ handed' = <<>>
    /\ UNCHANGED <<scriptVars, argVars, HasAnswer_Map, Evidence_Label, Probability,
                   Attention_Weight, histVars, haVars, aggVars, num_examples>>

\* The calls of the model (and of model.save) the running step makes:
\* train 277, 286; pretrain_reader 507, 515; pretrain_selector 466;
\* update_evidence 368, 377; validation 600, 611 (from main 883-888 and
\* from train 298-299) and the save of 893; the load of 899.
CallsOfStep ==
    IF pc = "trained" THEN {"load"}
    ELSE IF pc = "accumulate" THEN {"predict", "update_with_doc"}
    ELSE IF idx = NumBatches THEN {"predict_with_doc", "predict", "save"}
    ELSE IF mode = "all"
         THEN IF ValidatesInside(idx) THEN {"predict", "update_with_doc", "predict_with_doc"}
              ELSE {"predict", "update_with_doc"}
    ELSE IF mode = "reader" THEN {"predict", "update"}
    ELSE {"pretrain_selector"}

\* A call of the running step raises; the exception ends the process.  The
\* step has run up to the call: the cache block and the label block of the
\* batch, the document order and, in train, the translated labels.  A save
\* that raises follows the comparison of line 889 and precedes line 895.
\* A load that raises on a file that is there ends the process at line 899
\* (on a file that is not there: BeginUpdate).  A call of the validation
\* inside train (298-299) raises after update_with_doc has been called and
\* update_step advanced.
ModelCallFails ==
    /\ pc \in {"pass", "accumulate", "trained"}
    /\ pc = "accumulate" => idx < NumBatches
    /\ pc = "trained" => modelFile = "saved"
    /\ \E call \in CallsOfStep, inside \in BOOLEAN, order \in DocOrders,
          metric \in MetricValues :
        LET inLoop == pc # "trained" /\ idx < NumBatches
            ofTrain == inLoop /\ pc = "pass" /\ mode = "all"
            ofReader == inLoop /\ pc = "pass" /\ mode = "reader"
            ofSelector == inLoop /\ pc = "pass" /\ mode = "selector"
            ofUpdate == pc = "accumulate"
            map1 == IF ~inLoop THEN HasAnswer_Map
                    ELSE IF ofSelector THEN CacheAfter(HasAnswer_Map, idx, FlagGrid(idx))
                    ELSE CacheAfter(HasAnswer_Map, idx, PairGrid(idx))
            labels1 == IF ofTrain \/ ofUpdate THEN EnsureLabels(Evidence_Label, idx)
                       ELSE Evidence_Label
        IN  /\ inside => /\ ofTrain /\ ValidatesInside(idx)
                         /\ call \in {"predict_with_doc", "predict"}
            /\ ~inside /\ ofTrain => call \in {"predict", "update_with_doc"}
            /\ ofTrain => ~TranslateRaises(order, labels1[idx]) /\ ~SubscriptRaises(map1[idx])
            /\ ofUpdate => ~SubscriptRaises(map1[idx])
            /\ ofReader /\ call = "update" => ~SubscriptRaises(map1[idx])
            /\ ofSelector => \A d \in 1..NumDocs : \A i \in 1..batch_size(idx) :
                                 map1[idx][d][i].kind = "bool"
            /\ call = "save" => Improves(metric, best_valid)
            /\ HasAnswer_Map' = map1
            /\ matcherCalls' = IF inLoop THEN CallsAfter(matcherCalls, HasAnswer_Map, idx)
                               ELSE matcherCalls
            /\ mapWrites' = IF inLoop THEN WritesAfter(mapWrites, HasAnswer_Map, idx)
                            ELSE mapWrites
            /\ Evidence_Label' = labels1
            /\ idx_random' = IF ofTrain \/ ofSelector THEN order
                             ELSE IF ofUpdate THEN IdentityOrder
                             ELSE idx_random
            /\ Evidence_list_sample' = IF ofTrain THEN Translate(order, labels1[idx])
                                       ELSE Evidence_list_sample
            /\ handed' = IF call = "update_with_doc" \/ inside
                         THEN Append(handed, update_step)
                         ELSE handed
            /\ update_step' = IF inside THEN NextUpdateStep(update_step) ELSE update_step
            /\ metrics' = IF call = "save" THEN Append(metrics, metric) ELSE metrics
    /\ pc' = "ModelError"
    /\ UNCHANGED <<scriptVars, argVars, epoch, idx, best_valid, modelFile, Probability,
                   Attention_Weight, keyAttempts, preLabel, fileReads,
                   fileWrites, roundStart, roundSaved, savedEpoch, haVars, aggVars,
                   num_examples>>

(***************************************************************************)
(* The evidence update of main (897-901).                                  *)
(***************************************************************************)
\* Lines 898-899 and update_evidence 311-323.  The round script always
\* passes a save_evidence_file; model.load raises when no epoch saved
\* args.model_file into the round's fresh model directory.
BeginUpdate ==
    /\ pc = "trained"
    /\ pc' = IF modelFile = "absent" THEN "ModelFileMissing" ELSE "accumulate"
    /\ Probability' = <<>>
    /\ Attention_Weight' = <<>>
    /\ keyAttempts' = EmptyDict
    /\ idx' = 0
    /\ update_step' = 0
    /\ handed' = <<>>
    /\ UNCHANGED <<scriptVars, argVars, epoch, best_valid, modelFile, HasAnswer_Map,
                   Evidence_Label, idx_random, Evidence_list_sample, matcherCalls,
                   mapWrites, preLabel, fileReads, fileWrites, roundStart,
                   roundSaved, haVars, aggVars, num_examples, epochVars>>

\* The body of update_evidence's loop (325-397) on batch idx, the model
\* returning probs and attentions.
AccumulateBatch(probs, attentions) ==
    LET map1 == CacheAfter(HasAnswer_Map, idx, PairGrid(idx))
        labels1 == EnsureLabels(Evidence_Label, idx)
        typeError == SubscriptRaises(map1[idx])
        acc == WriteRecords([P |-> Probability, A |-> Attention_Weight,
                             attempts |-> keyAttempts, raised |-> FALSE],
                            idx, 0, probs, attentions)
    IN  /\ HasAnswer_Map' = map1
        /\ matcherCalls' = CallsAfter(matcherCalls, HasAnswer_Map, idx)
        /\ mapWrites' = WritesAfter(mapWrites, HasAnswer_Map, idx)
        /\ Evidence_Label' = labels1
        /\ idx_random' = IdentityOrder
        /\ IF typeError
           THEN /\ pc' = "TypeError"
                /\ UNCHANGED <<Probability, Attention_Weight, keyAttempts,
                               update_step, idx, handed>>
           ELSE /\ Probability' = acc.P
                /\ Attention_Weight' = acc.A
                /\ keyAttempts' = acc.attempts
                /\ handed' = Append(handed, update_step)
                /\ update_step' = NextUpdateStep(update_step)
                /\ pc' = IF acc.raised THEN "ValueError" ELSE "accumulate"
                /\ idx' = IF acc.raised THEN idx ELSE idx + 1
        /\ UNCHANGED <<scriptVars, argVars, epoch, best_valid, modelFile,
                       Evidence_list_sample, preLabel, fileReads, fileWrites, roundStart,
                       roundSaved, haVars, aggVars, num_examples, epochVars>>

\* One iteration of update_evidence's loop (324-397) on batch idx.
UpdateEvidenceStep ==
    /\ pc = "accumulate" /\ idx < NumBatches
    /\ \E probs \in [1..batch_size(idx) -> ProbValues],
          attentions \in [1..batch_size(idx) -> AttentionValues] :
        AccumulateBatch(probs, attentions)

\* The loader is exhausted: lines 399-420, and update_evidence returns.
PromoteEarly ==
    /\ pc = "accumulate" /\ idx >= 1
    /\ preLabel' = Evidence_Label
    /\ Evidence_Label' = PromoteLabels(Evidence_Label, Attention_Weight, Top_k).labels
    /\ pc' = "promoted"
    /\ UNCHANGED <<scriptVars, argVars, epoch, idx, best_valid, modelFile, HasAnswer_Map,
                   Probability, Attention_Weight, update_step, idx_random,
                   Evidence_list_sample, matcherCalls, mapWrites, keyAttempts,
                   fileReads, fileWrites, roundStart, roundSaved, haVars, aggVars, stepVars, epochVars>>
Promote ==
    /\ pc = "accumulate" /\ idx = NumBatches
    /\ preLabel' = Evidence_Label
    /\ Evidence_Label' = PromoteLabels(Evidence_Label, Attention_Weight, Top_k).labels
    /\ pc' = "promoted"
    /\ UNCHANGED <<scriptVars, argVars, epoch, idx, best_valid, modelFile, HasAnswer_Map,
                   Probability, Attention_Weight, update_step, idx_random,
                   Evidence_list_sample, matcherCalls, mapWrites, keyAttempts,
                   fileReads, fileWrites, roundStart, roundSaved, haVars, aggVars, stepVars, epochVars>>

\* Line 901: pickle.dump(Evidence_Label, ...) into the round's directory
\* under the round's save_evidence_file.
SaveEvidenceEarly ==
    /\ pc = "promoted" \/ (pc = "accumulate" /\ idx > 0 /\ fileWrites = 0)
    /\ files' = Put(files, EvidencePath(round, RoundName(round)), PickleDump(Evidence_Label))
    /\ fileWrites' = fileWrites + 1
    /\ roundSaved' = Put(roundSaved, round, Evidence_Label)
    /\ pc' = IF pc = "promoted" THEN "done" ELSE pc
    /\ UNCHANGED <<round, load_evidence_file, argVars, epoch, idx, best_valid, modelFile,
                   HasAnswer_Map, Evidence_Label, Probability, Attention_Weight,
                   update_step, idx_random, Evidence_list_sample, matcherCalls,
                   mapWrites, keyAttempts, preLabel, fileReads, roundStart,
                   haVars, aggVars, stepVars, epochVars>>
SaveEvidence ==
    /\ pc = "promoted"
    /\ files' = Put(files, EvidencePath(round, RoundName(round)), PickleDump(Evidence_Label))
    /\ fileWrites' = fileWrites + 1
    /\ roundSaved' = Put(roundSaved, round, Evidence_Label)
    /\ pc' = "done"
    /\ UNCHANGED <<round, load_evidence_file, argVars, epoch, idx, best_valid, modelFile,
                   HasAnswer_Map, Evidence_Label, Probability, Attention_Weight,
                   update_step, idx_random, Evidence_list_sample, matcherCalls,
                   mapWrites, keyAttempts, preLabel, fileReads, roundStart,
                   haVars, aggVars, stepVars, epochVars>>

Next ==
    \/ StartRound
    \/ EndRound
    \/ TrainStep
    \/ PretrainReaderStep
    \/ PretrainSelectorStep
    \/ Validate
    \/ ModelCallFails
    \/ BeginUpdate
    \/ UpdateEvidenceStep
    \/ Promote
    \/ SaveEvidence

Spec == Init /\ [][Next]_vars

(***************************************************************************)
(* SpecLoaded: one main.py process started by hand with --mode all and a   *)
(* --load_evidence_file that names a store written by a run whose pool had *)
(* one document more (vector.num_docs is set outside main.py): __main__    *)
(* 935-936 unpickles whatever the file holds, then main runs its epochs    *)
(* and its evidence update.                                                *)
(***************************************************************************)
\* The label lists a run over a pool of NumDocs + 1 documents can have saved.
LoadedStores ==
    {st \in [0..(NumBatches - 1) -> SeqsUpTo(-1..NumDocs, BatchSize)] :
        \A b \in 0..(NumBatches - 1) : Len(st[b]) = batch_size(b)}

InitLoaded ==
    /\ num_examples = NumExamples
    /\ handed = <<>>
    /\ round = 1
    /\ load_evidence_file = RoundName(0)
    /\ mode = "all"
    /\ Top_k \in 0..MaxK
    /\ num_epochs \in 1..MaxEpochs
    /\ \E st \in LoadedStores :
           /\ files = Put(EmptyDict, EvidencePath(1, RoundName(0)), PickleDump(st))
           /\ Evidence_Label = PickleLoad(PickleDump(st))
           /\ roundStart = Put(EmptyDict, 1, st)
    /\ roundSaved = EmptyDict
    /\ metrics = <<>>
    /\ savedEpoch = -1
    /\ fileReads = 1
    /\ fileWrites = 0
    /\ pc = "pass"
    /\ epoch = 0
    /\ idx = 0
    /\ best_valid = 0
    /\ modelFile = "absent"
    /\ HasAnswer_Map = EmptyDict
    /\ Probability = <<>>
    /\ Attention_Weight = <<>>
    /\ update_step = 0
    /\ idx_random = <<>>
    /\ Evidence_list_sample = <<>>
    /\ matcherCalls = ZeroCalls
    /\ mapWrites = ZeroWrites
    /\ keyAttempts = EmptyDict
    /\ preLabel = EmptyDict
    /\ HAIdle
    /\ AggIdle

NextLoaded ==
    \/ TrainStep
    \/ Validate
    \/ ModelCallFails
    \/ BeginUpdate
    \/ UpdateEvidenceStep
    \/ Promote
    \/ SaveEvidence

SpecLoaded == InitLoaded /\ [][NextLoaded]_vars

(***************************************************************************)
(* SpecSteps: one main.py process started by hand with --mode all on a     *)
(* train split of up to MaxBatches batches, or of ValidateEvery batches so *)
(* that train validates inside its loop: its epochs of train (222-299),    *)
(* validation, and its update_evidence pass (323-383).  The selector       *)
(* reports the same attention and no document for every example, which     *)
(* keeps the passes over the longer loaders apart by their position only.  *)
(***************************************************************************)
\* (attentions[0][i], attentions[1][i]) of the processes of SpecSteps
StepAttentionValues == {<<1, -1>>}

\* The process at the entry of main's epoch loop: no evidence file is
\* loaded; args.model_file may be there from an earlier run of the same name.
InitSteps ==
    /\ num_examples \in (0..(MaxBatches * BatchSize)) \cup {ValidateEvery * BatchSize}
    /\ handed = <<>>
    /\ ScriptInit
    /\ mode = "all"
    /\ Top_k = 0
    /\ num_epochs \in 0..MaxEpochs
    /\ pc = Entry(FALSE, FALSE)
    /\ epoch = 0
    /\ idx = 0
    /\ update_step = 0
    /\ best_valid = 0
    /\ modelFile \in {"absent", "saved"}
    /\ HasAnswer_Map = EmptyDict
    /\ Evidence_Label = EmptyDict
    /\ Probability = <<>>
    /\ Attention_Weight = <<>>
    /\ idx_random = <<>>
    /\ Evidence_list_sample = <<>>
    /\ matcherCalls = ZeroCalls
    /\ mapWrites = ZeroWrites
    /\ keyAttempts = EmptyDict
    /\ preLabel = EmptyDict
    /\ fileReads = 0
    /\ fileWrites = 0
    /\ roundStart = EmptyDict
    /\ roundSaved = EmptyDict
    /\ metrics = <<>>
    /\ savedEpoch = -1
    /\ HAIdle
    /\ AggIdle

\* One iteration of update_evidence's loop in the processes of SpecSteps.
StepUpdateEvidence ==
    /\ pc = "accumulate" /\ idx < NumBatches
    /\ \E probs \in [1..batch_size(idx) -> ProbValues],
          attentions \in [1..batch_size(idx) -> StepAttentionValues] :
        AccumulateBatch(probs, attentions)

NextSteps ==
    \/ TrainStep
    \/ Validate
    \/ ModelCallFails
    \/ BeginUpdate
    \/ StepUpdateEvidence
    \/ Promote
    \/ SaveEvidence

SpecSteps == InitSteps /\ [][NextSteps]_vars

(***************************************************************************)
(* SpecHA: has_answer applied to every bounded answer list and document.   *)
(***************************************************************************)
AnswerTokens == {"A", "b"}
DocTokens == {"a", "B"}

InitHA ==
    /\ StepIdle
    /\ MainIdle
    /\ AggIdle
    /\ haAnswer \in SeqsUpTo(SeqsUpTo(AnswerTokens, MaxAnsLen), MaxAnswers)
    /\ haDoc \in SeqsUpTo(DocTokens, MaxDocLen)
    /\ haResult = <<FALSE, <<>>>>
    /\ haDone = FALSE

\* A call has_answer(args, answer, t) and its return value.
HasAnswerCall ==
    /\ ~haDone
    /\ haResult' = has_answer(haAnswer, haDoc)
    /\ haDone' = TRUE
    /\ UNCHANGED <<mainVars, aggVars, stepVars, haAnswer, haDoc>>

NextHA == HasAnswerCall

SpecHA == InitHA /\ [][NextHA]_vars

(***************************************************************************)
(* SpecAgg: lines 609-644 of validate_unofficial_with_doc for the first    *)
(* question of the data set.  The reader returns up to TopN candidates per *)
(* document, the selector one score per document.                          *)
(***************************************************************************)
PositionValues == 0..MaxPos
PredScoreValues == {-1, 0, 1}
SelScoreValues == 1..MaxScore

InitAgg ==
    /\ StepIdle
    /\ MainIdle
    /\ HAIdle
    /\ aggSel \in [1..NumDocs -> SelScoreValues]
    /\ aggDoc = 0
    /\ aggK = 0
    /\ aggScores = <<>>
    /\ aggPrediction = <<>>
    /\ aggDone = FALSE
    /\ aggHistory = <<>>
    /\ aggSpan = <<>>

\* for idx_doc ...: for k in range(top_n): the next (idx_doc, k)
AggAdvance ==
    /\ aggK' = IF aggK + 1 < TopN THEN aggK + 1 ELSE 0
    /\ aggDoc' = IF aggK + 1 < TopN THEN aggDoc ELSE aggDoc + 1

\* Lines 616-626 for candidate k of document idx_doc.
AggCandidate ==
    /\ ~aggDone /\ aggDoc < NumDocs
    /\ \E s \in PositionValues, e \in PositionValues, pred_score \in PredScoreValues :
        /\ aggScores' = Aggregate(aggScores, DocText(0, aggDoc), s, e, pred_score,
                                  aggSel[aggDoc + 1])
        /\ aggHistory' = IF SpanRaises(DocText(0, aggDoc), s, e) THEN aggHistory
                          ELSE Append(aggHistory, <<Surface(DocText(0, aggDoc), s, e),
                                                    pred_score * aggSel[aggDoc + 1]>>)
        /\ aggSpan' = <<s, e>>
    /\ AggAdvance
    /\ UNCHANGED <<mainVars, haVars, stepVars, aggSel, aggPrediction, aggDone>>

\* The reader returned fewer than k + 1 candidates: pred_s[i][k] raises
\* IndexError inside the try block.
AggMissing ==
    /\ ~aggDone /\ aggDoc < NumDocs
    /\ AggAdvance
    /\ aggSpan' = <<>>
    /\ UNCHANGED <<mainVars, haVars, stepVars, aggSel, aggScores, aggPrediction, aggDone, aggHistory>>

\* Lines 637-644.
AggSelect ==
    /\ ~aggDone /\ aggDoc = NumDocs
    /\ aggPrediction' = SelectAnswer(aggScores)
    /\ aggDone' = TRUE
    /\ UNCHANGED <<mainVars, haVars, stepVars, aggSel, aggDoc, aggK, aggScores, aggHistory, aggSpan>>

NextAgg == AggCandidate \/ AggMissing \/ AggSelect

SpecAgg == InitAgg /\ [][NextAgg]_vars

(***************************************************************************)
(* Vocabulary of the claims about update_evidence.                         *)
(***************************************************************************)
\* The step is one of a running process: not its launch, not its exit.
InProcess == pc # "idle" /\ pc' # "idle"

\* The label positions <<batch, in-batch index>> of a store that hold a document.
Labeled(labels) ==
    {<<b, i>> \in (DOMAIN labels) \X (0..(BatchSize - 1)) :
        i < Len(labels[b]) /\ labels[b][i + 1] # -1}

\* The example <<batch, in-batch index>> of the n-th accumulated record.
RecordExample(n) == ParseKey(Attention_Weight[n][1])
RecordScore(n) == Attention_Weight[n][2]
RecordDoc(n) == Attention_Weight[n][3]
Records == 1..Len(Attention_Weight)

\* Records the promotion phase could promote: a document was found and the
\* example was unlabeled when the phase began.
Eligible == {n \in Records : RecordDoc(n) # -1 /\ RecordExample(n) \notin Labeled(preLabel)}

\* Label positions the promotion phase changed from -1 to a document.
Promoted == Labeled(Evidence_Label) \ Labeled(preLabel)

PromotedRecords == {n \in Eligible : RecordExample(n) \in Promoted}

\* C1: once Evidence_Label[idx][i] holds a value other than -1, no later step
\* of the same process changes it: no train step, no update_evidence step and
\* no promotion resets it to -1 or replaces it by another document index.
C1_LabelImmutable ==
    [][InProcess =>
        \A b \in DOMAIN Evidence_Label :
            /\ b \in DOMAIN Evidence_Label'
            /\ \A i \in DOMAIN Evidence_Label[b] :
                   Evidence_Label[b][i] # -1 =>
                       Evidence_Label'[b][i] = Evidence_Label[b][i]]_vars

\* A promotion phase has run in a round that loaded labels from the round
\* before, and it promoted a further example.
C1_Witness ==
    /\ pc = "promoted"
    /\ Labeled(preLabel) # {}
    /\ Promoted # {}
    /\ \E n \in Records : RecordExample(n) \in Labeled(preLabel)
                          /\ RecordDoc(n) # -1
                          /\ RecordDoc(n) # preLabel[RecordExample(n)[1]][RecordExample(n)[2] + 1]

\* C2 (as claimed): for every budget K >= 0, K = 0 included, one
\* update_evidence pass changes exactly min(K, E) labels from -1 to a document
\* index, E being the number of eligible records.
C2_BudgetRespected ==
    pc = "promoted" => Cardinality(Promoted) = Min(Top_k, Cardinality(Eligible))

\* C3: with a budget K >= 1 the promoted examples are the K highest-scoring
\* eligible records of the whole pass: min(K, E) records are promoted, each
\* gets its record's best_doc_index, every promoted record scores at least as
\* high as every eligible record left unlabeled, and a record whose example
\* was already labeled neither changes that label nor uses up budget.
C3_GlobalTopK ==
    (pc = "promoted" /\ Top_k >= 1) =>
        /\ Cardinality(Promoted) = Min(Top_k, Cardinality(Eligible))
        /\ Cardinality(PromotedRecords) = Cardinality(Promoted)
        /\ \A n \in PromotedRecords :
               Evidence_Label[RecordExample(n)[1]][RecordExample(n)[2] + 1] = RecordDoc(n)
        /\ \A n \in PromotedRecords : \A m \in Eligible \ PromotedRecords :
               RecordScore(n) >= RecordScore(m)
        /\ \A n \in Records : RecordExample(n) \in Labeled(preLabel) =>
               Evidence_Label[RecordExample(n)[1]][RecordExample(n)[2] + 1]
                   = preLabel[RecordExample(n)[1]][RecordExample(n)[2] + 1]

\* The budget cut through the eligible records of two batches, passing over
\* an already labeled example whose record scored highest.
C3_Witness ==
    /\ pc = "promoted" /\ Top_k >= 1
    /\ Cardinality(Eligible) > Top_k
    /\ \E n \in PromotedRecords, m \in Eligible \ PromotedRecords :
           /\ RecordScore(n) > RecordScore(m)
           /\ RecordExample(n)[1] > RecordExample(m)[1]
    /\ \E n \in Records :
           /\ RecordExample(n) \in Labeled(preLabel)
           /\ RecordDoc(n) # -1
           /\ \A m \in Records : RecordScore(n) >= RecordScore(m)

\* The keys of the examples visited so far in this pass.
VisitedKeys == {FormatKey(b, i) : <<b, i>> \in
                   {<<b, i>> \in (0..(NumBatches - 1)) \X (0..(BatchSize - 1)) :
                       b < idx /\ i < batch_size(b)}}

\* C4: in one update_evidence pass every key is written to Probability and
\* Attention_Weight exactly once: no key meets a second write, the two
\* accumulators hold one record per visited example; and a pass aborted at a
\* duplicate key has promoted nothing and written no evidence file.
C4_KeyWrittenOnce ==
    /\ \A key \in DOMAIN keyAttempts : keyAttempts[key] = 1
    /\ pc \in {"accumulate", "promoted", "done"} =>
           /\ KeysOf(Probability) = VisitedKeys
           /\ KeysOf(Attention_Weight) = VisitedKeys
           /\ DOMAIN keyAttempts = VisitedKeys
           /\ Len(Probability) = Cardinality(VisitedKeys)
           /\ Len(Attention_Weight) = Cardinality(VisitedKeys)
    /\ pc = "ValueError" =>
           /\ preLabel = EmptyDict
           /\ fileWrites = 0
           /\ EvidencePath(round, RoundName(round)) \notin DOMAIN files

\* A pass over more than one batch has written the record of its last example.
C4_Witness ==
    /\ pc = "accumulate" /\ idx = NumBatches /\ NumBatches > 1
    /\ Len(Probability) = NumExamples
    /\ \A key \in VisitedKeys : keyAttempts[key] = 1

\* C5: within one process HasAnswer_Map[idx] is written at most once per idx
\* and never modified or removed afterwards; the first visit of idx calls the
\* span matcher once per (document slot, example) cell and later visits call
\* it zero times.
C5_CacheWriteOnce ==
    /\ [](\A b \in 0..(NumBatches - 1) :
            /\ mapWrites[b] <= 1
            /\ (b \in DOMAIN HasAnswer_Map) <=> (mapWrites[b] = 1)
            /\ \A d \in 1..NumDocs : \A i \in 1..batch_size(b) :
                   matcherCalls[b][d][i] = mapWrites[b])
    /\ [][InProcess =>
            \A b \in DOMAIN HasAnswer_Map :
                b \in DOMAIN HasAnswer_Map' /\ HasAnswer_Map'[b] = HasAnswer_Map[b]]_vars

\* Batch 0 has been visited by two training epochs and by update_evidence.
C5_Witness ==
    /\ pc = "accumulate" /\ idx >= 1 /\ epoch >= 2
    /\ mapWrites[0] = 1
    /\ matcherCalls[0][1][1] = 1

\* C6 (as claimed): whichever mode filled it, every entry of HasAnswer_Map is
\* a grid of NumDocs x batch_size pairs (flag, span list), so update_evidence
\* never fails to subscript a cached cell.
C6_GridOfPairs ==
    /\ \A b \in DOMAIN HasAnswer_Map :
           /\ DOMAIN HasAnswer_Map[b] = 1..NumDocs
           /\ \A d \in 1..NumDocs :
                  /\ DOMAIN HasAnswer_Map[b][d] = 1..batch_size(b)
                  /\ \A i \in 1..batch_size(b) : HasAnswer_Map[b][d][i].kind = "pair"
    /\ pc # "TypeError"

\* Number of labeled examples of a store.
LabeledCount(labels) == Cardinality(Labeled(labels))

\* C7 (as claimed): round 0 starts with an empty label store; every later
\* round starts with exactly the store the round before it saved; a labeled
\* example keeps its document index from round to round; and after n rounds
\* at most n * K examples are labeled.
C7_RoundChain ==
    /\ 0 \in DOMAIN roundStart => roundStart[0] = EmptyDict
    /\ \A r \in DOMAIN roundStart :
           r >= 1 => (r - 1) \in DOMAIN roundSaved /\ roundStart[r] = roundSaved[r - 1]
    /\ \A r \in DOMAIN roundSaved :
           /\ \A q \in DOMAIN roundSaved :
                  q < r => \A e \in Labeled(roundSaved[q]) :
                      /\ e[1] \in DOMAIN roundSaved[r]
                      /\ roundSaved[r][e[1]][e[2] + 1] = roundSaved[q][e[1]][e[2] + 1]
           /\ LabeledCount(roundSaved[r]) <= (r + 1) * Top_k

\* C8: a process reads the evidence file at most once, at its start, and
\* writes it at most once, when the promotion phase has finished; until then,
\* and whenever the process has stopped on an error, the round's evidence
\* file does not exist, and the file written holds the fully promoted store.
C8_FileOnce ==
    /\ [](/\ fileReads <= 1
          /\ fileWrites <= 1
          /\ fileReads = 1 => load_evidence_file # NoFile
          /\ pc \notin {"idle", "done"} =>
                 /\ fileWrites = 0
                 /\ EvidencePath(round, RoundName(round)) \notin DOMAIN files
          /\ pc = "done" =>
                 /\ fileWrites = 1
                 /\ files[EvidencePath(round, RoundName(round))] = PickleDump(Evidence_Label)
                 /\ Cardinality(Promoted) = Min(Max(Top_k, 1), Cardinality(Eligible)))
    /\ [][InProcess =>
            /\ fileReads' = fileReads
            /\ fileWrites' # fileWrites => pc = "promoted" /\ pc' = "done"]_vars

\* A round that loaded the file of the round before has failed in the middle
\* of its update_evidence pass.
C8_Witness ==
    /\ pc = "ModelError"
    /\ fileReads = 1
    /\ Len(Attention_Weight) >= 1
    /\ idx < NumBatches

\* The window starts at which the normalized answer equals the lower-cased
\* document tokens.
MatchStarts(single_answer, text) ==
    {i \in 0..(Len(text) - Len(single_answer)) :
        \A k \in 1..Len(single_answer) : single_answer[k] = text[i + k]}

\* Number of matching windows of the accepted answers before the a-th.
MatchesBefore(answer, text, a) ==
    Cardinality({m \in (1..(a - 1)) \X (0..Len(text)) :
                    m[2] \in MatchStarts(NormalizeAnswer(answer[m[1]]), text)})

\* C9: has_answer returns as spans exactly the matching windows (i, i+n-1),
\* ordered by accepted answer and then by window start; none is missed, none
\* is added, and the flag is true exactly when the span list is non-empty.
C9_SpansExact ==
    haDone =>
        LET text == LowerAll(haDoc)
            spans == haResult[2]
        IN  /\ Len(spans) = MatchesBefore(haAnswer, text, Len(haAnswer) + 1)
            /\ \A a \in 1..Len(haAnswer) :
                   LET single_answer == NormalizeAnswer(haAnswer[a])
                       starts == MatchStarts(single_answer, text)
                   IN  \A i \in starts :
                           spans[MatchesBefore(haAnswer, text, a)
                                 + Cardinality({j \in starts : j <= i})]
                               = <<i, i + Len(single_answer) - 1>>
            /\ haResult[1] <=> (Len(spans) > 0)

\* Two accepted answers of different length both match, the first more than
\* once, and a span of the second starts before a span of the first.
C9_Witness ==
    /\ haDone
    /\ Len(haAnswer) = 2
    /\ Len(haAnswer[1]) > 0 /\ Len(haAnswer[2]) > 0
    /\ Len(haAnswer[1]) # Len(haAnswer[2])
    /\ Len(haResult[2]) >= 3
    /\ haResult[2][2][1] > haResult[2][1][1]
    /\ haResult[2][Len(haResult[2])][1] < haResult[2][2][1]
    /\ \E k \in 1..Len(haDoc) : Lower(haDoc[k]) # haDoc[k]

\* The sum of the votes the history holds for key, from its n-th entry on.
RECURSIVE HistoryVote(_, _, _)
HistoryVote(history, key, n) ==
    IF n > Len(history) THEN 0
    ELSE (IF history[n][1] = key THEN history[n][2] ELSE 0)
         + HistoryVote(history, key, n + 1)

\* C10 (as claimed): the votes are summed per surface string over all
\* documents and candidates, and the answer returned is the string with the
\* largest summed vote, the first inserted among equals, for every non-empty
\* vote map, maps whose votes are all zero or negative included.
C10_MaxVoteFirst ==
    /\ KeysOf(aggScores) = KeysOf(aggHistory)
    /\ \A n \in 1..Len(aggScores) :
           /\ aggScores[n][2] = HistoryVote(aggHistory, aggScores[n][1], 1)
           /\ \A m \in 1..Len(aggScores) : m # n => aggScores[m][1] # aggScores[n][1]
    /\ (aggDone /\ Len(aggScores) > 0) =>
           \E n \in 1..Len(aggScores) :
               /\ aggPrediction = aggScores[n][1]
               /\ \A m \in 1..Len(aggScores) : aggScores[m][2] <= aggScores[n][2]
               /\ \A m \in 1..(n - 1) : aggScores[m][2] < aggScores[n][2]

(***************************************************************************)
(* Vocabulary of the claims about the aggregation loop.                    *)
(***************************************************************************)
\* The step handles a candidate the reader returned.
CandidateStep == <<aggDoc, aggK>>' # <<aggDoc, aggK>> /\ aggSpan' # <<>>

\* The start or the end of the span lies beyond the last token of the document.
BeyondLast(doc_text, span) == span[1] >= Len(doc_text) \/ span[2] >= Len(doc_text)

\* The vote a vote map holds for key, 0 when it has no such bucket.
VoteOrZero(scores, key) == IF HasKey(scores, key) THEN VoteOf(scores, key) ELSE 0

\* C11 (as claimed): a candidate whose start or end index lies beyond the
\* last token of its document creates and changes no vote bucket, and every
\* other candidate, of the same and of later documents, is still aggregated:
\* its vote is added to the bucket of its surface string.
C11_OutOfRangeSkipped ==
    [][CandidateStep =>
        LET doc_text == DocText(0, aggDoc)
            key == Surface(doc_text, aggSpan'[1], aggSpan'[2])
        IN  IF BeyondLast(doc_text, aggSpan')
            THEN aggScores' = aggScores
            ELSE /\ Len(aggHistory') = Len(aggHistory) + 1
                 /\ aggHistory'[Len(aggHistory')][1] = key
                 /\ HasKey(aggScores', key)
                 /\ VoteOf(aggScores', key)
                        = VoteOrZero(aggScores, key) + aggHistory'[Len(aggHistory')][2]
                 /\ \A n \in 1..Len(aggScores) :
                        aggScores[n][1] # key => aggScores'[n] = aggScores[n]]_vars

(***************************************************************************)
(* Vocabulary of the claims about the steps of a pass.                     *)
(***************************************************************************)
\* A train step has just finished batch idx - 1.
AfterTrainStep == pc = "pass" /\ mode = "all" /\ idx >= 1

\* order holds every document index of the pool exactly once.
IsPermutation(order) ==
    /\ DOMAIN order = 1..NumDocs
    /\ \A d \in 0..(NumDocs - 1) : Cardinality({k \in 1..NumDocs : order[k] = d}) = 1

\* C12: in every train step idx_random is a permutation of [0, D) and
\* idx_doc_map its inverse extended with -1 -> -1: a label d in [0, D) is
\* translated to the slot s with idx_random[s] = d, which is the slot of the
\* sampled sub-batch that holds document d; an unlabeled example's
\* translated label is -1.
C12_InverseOrder ==
    AfterTrainStep =>
        /\ IsPermutation(idx_random)
        /\ DOMAIN Evidence_list_sample = DOMAIN Evidence_Label[idx - 1]
        /\ \A i \in DOMAIN Evidence_list_sample :
               LET d == Evidence_Label[idx - 1][i]
                   slot == Evidence_list_sample[i]
               IN  IF d = -1
                   THEN slot = -1
                   ELSE /\ d \in 0..(NumDocs - 1)
                        /\ slot \in 0..(NumDocs - 1)
                        /\ idx_random[slot + 1] = d
                        /\ SampleDocs(idx_random, PoolDocs)[slot + 1] = PoolDocs[d + 1]

\* A train step of a round that loaded labels sampled the documents in
\* another order than the pool's, for a batch with a labeled example, whose
\* label moved to another slot, and an unlabeled one.
C12_Witness ==
    /\ AfterTrainStep
    /\ idx_random # IdentityOrder
    /\ \E i, j \in DOMAIN Evidence_list_sample :
           /\ Evidence_Label[idx - 1][i] \in 0..(NumDocs - 1)
           /\ Evidence_list_sample[i] # Evidence_Label[idx - 1][i]
           /\ Evidence_Label[idx - 1][j] = -1

\* An update_evidence step has finished batch idx - 1, or the pass is over.
AfterUpdateStep == (pc = "accumulate" /\ idx >= 1) \/ pc \in {"promoted", "done"}

\* The label of example <<batch, in-batch index>> in the store.
LabelOf(labels, ex) == labels[ex[1]][ex[2] + 1]

\* C13: in every update_evidence step the document order is the identity:
\* each of the D documents is given to the model exactly once, at the slot
\* equal to its original index, so the best_doc_index the promoter stores as
\* evidence label is an original document index.
C13_IdentityOrder ==
    /\ AfterUpdateStep =>
           /\ IsPermutation(idx_random)
           /\ \A k \in 1..NumDocs : SampleDocs(idx_random, PoolDocs)[k] = PoolDocs[k]
    /\ pc \in {"promoted", "done"} =>
           \A n \in PromotedRecords :
               /\ LabelOf(Evidence_Label, RecordExample(n)) = RecordDoc(n)
               /\ RecordDoc(n) \in 0..(NumDocs - 1)
               /\ SampleDocs(idx_random, PoolDocs)[RecordDoc(n) + 1]
                      = LabelOf(Evidence_Label, RecordExample(n))

\* After epochs of training on shuffled documents the promoter stored the
\* last document of the pool as the label of an example.
C13_Witness ==
    /\ pc = "promoted" /\ mode = "all" /\ epoch >= 1
    /\ \E n \in PromotedRecords : LabelOf(Evidence_Label, RecordExample(n)) = NumDocs - 1

\* The promotion walk of the pass that has just ended, replayed on the label
\* store as it was when the walk began.
WalkOfPass == PromoteLabels(preLabel, Attention_Weight, Top_k)

\* C14 (as claimed): the walk's attempt to promote an example whose label is
\* already different from -1 fails with an AlreadyLabeled error that aborts
\* the pass, leaving the label unchanged: a pass that came to its end has
\* met no record of a labeled example.
C14_AlreadyLabeledAborts ==
    pc \in {"promoted", "done"} =>
        /\ WalkOfPass.skipped = 0
        /\ \A ex \in Labeled(preLabel) : LabelOf(Evidence_Label, ex) = LabelOf(preLabel, ex)

\* C14 (amended): a record whose example is already labeled is skipped
\* without any error: the walk always ends normally, the label is left
\* unchanged, and the records after the skipped one are still promoted up to
\* the budget.
C14_LabeledSkipped ==
    /\ [](pc \in {"promoted", "done"} =>
            /\ \A ex \in Labeled(preLabel) :
                   LabelOf(Evidence_Label, ex) = LabelOf(preLabel, ex)
            /\ WalkOfPass.count = Cardinality(Promoted)
            /\ Cardinality(Promoted) = Min(Max(Top_k, 1), Cardinality(Eligible)))
    /\ [][(pc = "accumulate" /\ idx = NumBatches /\ pc' # pc) => pc' = "promoted"]_vars

\* The walk skipped the record of a labeled example and then promoted a
\* record that was sorted after it.
C14_Witness ==
    /\ pc = "promoted"
    /\ WalkOfPass.skipped >= 1
    /\ \E n \in Records, m \in PromotedRecords :
           /\ RecordExample(n) \in Labeled(preLabel)
           /\ RecordDoc(n) # -1
           /\ n < m
           /\ RecordScore(n) >= RecordScore(m)

\* C15 (as claimed): when a stored label is a document index that is not
\* among the indices sampled for the train step (an index >= D of a loaded
\* store), its translation is recovered locally: the step does not raise, and
\* the translated label of that example is the sentinel -1.
C15_TranslationRecovered ==
    /\ pc # "KeyError"
    /\ AfterTrainStep =>
           \A i \in DOMAIN Evidence_list_sample :
               Evidence_Label[idx - 1][i] \notin 0..(NumDocs - 1) =>
                   Evidence_list_sample[i] = -1

(***************************************************************************)
(* Vocabulary of the claims about the start of a process.                  *)
(***************************************************************************)
\* The step launches a process that is told to load an evidence file which
\* is not in its model directory.
LaunchWithoutFile ==
    /\ pc = "idle" /\ pc' # "idle"
    /\ load_evidence_file # NoFile
    /\ EvidencePath(round, load_evidence_file) \notin DOMAIN files'

\* C16: when load_evidence_file is not 'none' and the named file is absent
\* the process fails at startup: no training epoch, no validation pass and no
\* update_evidence pass is started, and no model or evidence file is written.
C16_MissingFileFatal ==
    /\ [](pc = "EvidenceFileMissing" =>
            /\ load_evidence_file # NoFile
            /\ EvidencePath(round, load_evidence_file) \notin DOMAIN files
            /\ epoch = 0 /\ idx = 0 /\ best_valid = 0
            /\ mapWrites = ZeroWrites /\ matcherCalls = ZeroCalls
            /\ HasAnswer_Map = EmptyDict /\ Evidence_Label = EmptyDict
            /\ Probability = <<>> /\ Attention_Weight = <<>> /\ preLabel = EmptyDict
            /\ modelFile = "absent"
            /\ fileReads = 0 /\ fileWrites = 0
            /\ EvidencePath(round, RoundName(round)) \notin DOMAIN files)
    /\ [][LaunchWithoutFile => pc' = "EvidenceFileMissing"]_vars
    /\ [][pc = "EvidenceFileMissing" => pc' = "idle" /\ files' = files]_vars

\* The round before ended on an error without saving its labels, and the
\* next process was launched to load them.
C16_Witness ==
    /\ pc = "EvidenceFileMissing"
    /\ round >= 1
    /\ (round - 1) \notin DOMAIN roundSaved

(***************************************************************************)
(* Vocabulary of the claims about ties and label values.                   *)
(***************************************************************************)
\* Example a was visited before example b in the pass: ascending batch idx,
\* then ascending in-batch index.
VisitedBefore(a, b) == a[1] < b[1] \/ (a[1] = b[1] /\ a[2] < b[2])

\* C17: records of equal best_score are considered in visitation order: when
\* the budget cuts through a group of equal-score eligible records, the ones
\* promoted are the earliest visited of the group.
C17_TiesByVisit ==
    pc = "promoted" =>
        \A n \in PromotedRecords : \A m \in Eligible \ PromotedRecords :
            RecordScore(n) = RecordScore(m) =>
                VisitedBefore(RecordExample(n), RecordExample(m))

\* The budget cut through three eligible records of equal score that lie in
\* two batches.
C17_Witness ==
    /\ pc = "promoted"
    /\ \E n \in PromotedRecords : \E m1, m2 \in Eligible \ PromotedRecords :
           /\ m1 # m2
           /\ RecordScore(n) = RecordScore(m1)
           /\ RecordScore(n) = RecordScore(m2)
           /\ RecordExample(n)[1] # RecordExample(m2)[1]

AllBatches == 0..(NumBatches - 1)

\* The batches a train or update_evidence step of the running process has
\* visited.
TouchedBatches ==
    CASE pc \in {"promoted", "done"} -> AllBatches
      [] pc = "accumulate" -> IF mode = "all" /\ epoch >= 1 THEN AllBatches ELSE 0..(idx - 1)
      [] pc = "pass" /\ mode = "all" -> IF epoch >= 1 THEN AllBatches ELSE 0..(idx - 1)
      [] OTHER -> {}

\* C18: with a model whose best_doc_index is always in [-1, D), a record
\* with best_doc_index = -1 is never promoted whatever its score (it neither
\* changes a label nor counts as a promotion), and in every reachable state
\* every visited example has exactly one label entry, whose value is -1 or a
\* document index in [0, D).
C18_LabelDomain ==
    /\ \A b \in DOMAIN Evidence_Label :
           /\ b \in AllBatches
           /\ DOMAIN Evidence_Label[b] = 1..batch_size(b)
           /\ \A i \in 1..batch_size(b) : Evidence_Label[b][i] \in -1..(NumDocs - 1)
    /\ TouchedBatches \subseteq DOMAIN Evidence_Label
    /\ pc \in {"promoted", "done"} =>
           /\ \A n \in Records :
                  RecordDoc(n) = -1 =>
                      LabelOf(Evidence_Label, RecordExample(n))
                          = LabelOf(preLabel, RecordExample(n))
           /\ WalkOfPass.count = Cardinality(Promoted)

\* The record with the highest score of the pass named no document and its
\* example stayed unlabeled, while a record scoring lower was promoted.
C18_Witness ==
    /\ pc = "promoted"
    /\ \E n \in Records : \E m \in PromotedRecords :
           /\ RecordDoc(n) = -1
           /\ RecordScore(n) > RecordScore(m)
           /\ LabelOf(Evidence_Label, RecordExample(n)) = -1
           /\ batch_size(RecordExample(n)[1]) < BatchSize

(***************************************************************************)
(* Vocabulary of the claims about the order of a pass.                     *)
(***************************************************************************)
\* Two stores label the same examples with the same documents.
SameLabels(l1, l2) ==
    /\ Labeled(l1) = Labeled(l2)
    /\ \A ex \in Labeled(l1) : LabelOf(l1, ex) = LabelOf(l2, ex)

\* The keys of every example of the train split.
AllKeys == {FormatKey(b, i) : <<b, i>> \in
               {<<b, i>> \in AllBatches \X (0..(BatchSize - 1)) : i < batch_size(b)}}

\* C19: within one update_evidence pass no evidence label changes while
\* batches are being accumulated; the first promotion happens only after the
\* record of the last example of the last batch has been written, so the
\* ranking is computed over the records of the complete pass and over the
\* labels as they were at the start of the pass.
C19_PromoteAfterPass ==
    /\ [](pc = "accumulate" => SameLabels(Evidence_Label, roundStart[round]))
    /\ [](pc \in {"promoted", "done"} =>
            /\ Len(Attention_Weight) = NumExamples
            /\ KeysOf(Attention_Weight) = AllKeys
            /\ SameLabels(preLabel, roundStart[round])
            /\ \A ex \in Promoted :
                   \E n \in Eligible : RecordExample(n) = ex
                                        /\ LabelOf(Evidence_Label, ex) = RecordDoc(n))
    /\ [][(InProcess /\ pc = "accumulate" /\ ~SameLabels(Evidence_Label', Evidence_Label)) =>
            /\ idx = NumBatches
            /\ Len(Attention_Weight) = NumExamples
            /\ Attention_Weight' = Attention_Weight
            /\ pc' = "promoted"]_vars

\* The pass promoted an example of its last batch and left an eligible
\* example of its first batch, visited earlier, unlabeled.
C19_Witness ==
    /\ pc = "promoted" /\ NumBatches > 1
    /\ \E n \in PromotedRecords : \E m \in Eligible \ PromotedRecords :
           /\ RecordExample(n)[1] = NumBatches - 1
           /\ RecordExample(m)[1] = 0

\* C20: in every train pass and every update_evidence pass the update_step
\* handed to the b-th model.update_with_doc call of the pass (b from 0) is
\* b mod 4: it starts at 0 with each pass, advances by one per batch, wraps
\* from 3 to 0 and is never outside 0..3.
C20_UpdateStepCycle ==
    /\ update_step \in 0..3
    /\ \A b \in 0..(Len(handed) - 1) : handed[b + 1] = b % 4
    /\ pc \in {"pass", "accumulate"} => Len(handed) = idx /\ update_step = idx % 4

\* After a train pass whose length is no multiple of 4, update_evidence has
\* made more than four calls: the counter has wrapped from 3 to 0.
C20_Witness ==
    /\ pc = "accumulate" /\ epoch >= 1
    /\ NumBatches % 4 # 0
    /\ idx >= 5
    /\ handed[4] = 3 /\ handed[5] = 0
    /\ update_step = 1

(***************************************************************************)
(* Vocabulary of the claims about the epoch loop.                          *)
(***************************************************************************)
\* main has left its epoch loop.
AfterTraining == pc \in {"trained", "accumulate", "promoted", "done", "ModelFileMissing"}

\* The step is the validation that ends an epoch.
EpochEnds == InProcess /\ epoch' # epoch

\* The pass that has just run over the loader left the traces of mode m.
PassOfMode(m) ==
    /\ idx = NumBatches
    /\ DOMAIN HasAnswer_Map = AllBatches
    /\ m = "all" => AllBatches \subseteq DOMAIN Evidence_Label /\ idx_random \in DocOrders
    /\ m = "reader" =>
           /\ idx_random = <<>>
           /\ \A b \in AllBatches : ~SubscriptRaises(HasAnswer_Map[b])
    /\ m = "selector" =>
           /\ idx_random \in DocOrders
           /\ \A b \in AllBatches : \A d \in 1..NumDocs : \A i \in 1..batch_size(b) :
                  HasAnswer_Map[b][d][i].kind = "bool"

\* C21: main runs exactly num_epochs epochs and then stops training; each
\* epoch is one pass of the configured mode followed by validation; the model
\* file is saved in an epoch exactly when that epoch's metric is strictly
\* greater than best_valid, so best_valid never decreases and the saved model
\* is the one of the earliest epoch that reached the maximum metric so far.
C21_EpochBudget ==
    /\ [](pc \notin {"idle", "ModelError"} =>
            /\ epoch <= num_epochs
            /\ Len(metrics) = epoch
            /\ AfterTraining => epoch = num_epochs
            /\ pc = "pass" => epoch < num_epochs
            /\ (savedEpoch = -1) <=> (modelFile = "absent")
            /\ (savedEpoch = -1) <=> (\A e \in 1..Len(metrics) : metrics[e] <= 0)
            /\ savedEpoch = -1 => best_valid = 0
            /\ savedEpoch # -1 =>
                   /\ savedEpoch \in 0..(epoch - 1)
                   /\ best_valid = metrics[savedEpoch + 1]
                   /\ \A e \in 1..Len(metrics) : metrics[e] <= metrics[savedEpoch + 1]
                   /\ \A e \in 1..savedEpoch : metrics[e] < metrics[savedEpoch + 1])
    /\ [][EpochEnds =>
            /\ epoch' = epoch + 1
            /\ pc = "pass" /\ PassOfMode(mode)
            /\ metrics' = Append(metrics, metrics'[epoch + 1])
            /\ IF metrics'[epoch + 1] > best_valid
               THEN savedEpoch' = epoch /\ modelFile' = "saved"
                    /\ best_valid' = metrics'[epoch + 1]
               ELSE savedEpoch' = savedEpoch /\ modelFile' = modelFile
                    /\ best_valid' = best_valid]_vars
    /\ [][InProcess =>
            /\ best_valid' >= best_valid
            /\ (modelFile' # modelFile \/ savedEpoch' # savedEpoch) => epoch' # epoch
            /\ AfterTraining => epoch' = epoch /\ pc' # "pass"]_vars

\* Two epochs reached the same metric, above the one before them, and the
\* file holds the model of the first of the two.
C21_Witness ==
    /\ pc = "trained" /\ epoch = num_epochs /\ epoch >= 2
    /\ metrics[epoch] = metrics[epoch - 1]
    /\ metrics[epoch] > 0
    /\ savedEpoch = epoch - 2

\* Some non-empty window of the text equals an accepted answer.
NonEmptyWindowMatches(answer, text) ==
    \E a \in 1..Len(answer) :
        /\ Len(NormalizeAnswer(answer[a])) > 0
        /\ MatchStarts(NormalizeAnswer(answer[a]), text) # {}

\* C22: for every answer list and document, including an accepted answer
\* that normalizes to zero tokens and a document shorter than the answer,
\* every span (start, end) returned by has_answer satisfies
\* 0 <= start <= end < len(document), and has_answer is true only if some
\* non-empty window of the document equals an accepted answer.
C22_SpansInsideDocument ==
    haDone =>
        /\ \A k \in 1..Len(haResult[2]) :
               /\ 0 <= haResult[2][k][1]
               /\ haResult[2][k][1] <= haResult[2][k][2]
               /\ haResult[2][k][2] < Len(haDoc)
        /\ haResult[1] => NonEmptyWindowMatches(haAnswer, LowerAll(haDoc))

\* C23: whenever main reaches the evidence update, the model file it loads
\* first has been saved by an earlier epoch of the same process, for every
\* num_epochs >= 0 and every sequence of validation metrics, including
\* metrics that never exceed the initial best_valid of 0.
C23_LoadedModelSaved ==
    /\ pc # "ModelFileMissing"
    /\ pc \in {"accumulate", "promoted"} =>
           /\ modelFile = "saved"
           /\ savedEpoch \in 0..(epoch - 1)

====
